---- MODULE Spec2Model ----
(***************************************************************************)
(* The two linter adapters of the repository:                              *)
(*   .calm/run-cargo-check.py        wraps `cargo check --message-format=json` *)
(*   demo/.calm/flake8/run-flake8.py wraps `flake8`                        *)
(* Each starts one child process, reads the child's stdout a line at a     *)
(* time, prints one JSON object for every line it recognises, and then     *)
(* waits for the child.  One behaviour of the model is one invocation of   *)
(* one of the two scripts (variable tool) against one child.               *)
(*                                                                         *)
(* Text is a sequence of one-character strings wherever the code looks     *)
(* inside it.  A JSON value is a record [t, v]: t is its JSON type and v  *)
(* its content.  Python 2 semantics of the scripts' era are modelled: the  *)
(* pipe yields str lines that a str pattern can match.                     *)
(***************************************************************************)
EXTENDS Integers, Sequences, FiniteSets, TLC

\* Longest child output, in lines.
MaxLines == 2

(***************************************************************************)
(* JSON values as json.loads returns them, and the Python operations the   *)
(* scripts apply to them.                                                  *)
(***************************************************************************)
JNull == [t |-> "null", v |-> <<>>]
JStr(s) == [t |-> "str", v |-> s]
JInt(n) == [t |-> "int", v |-> n]
JList(l) == [t |-> "list", v |-> l]
JObj(f) == [t |-> "obj", v |-> f]

\* Python truth value: None, "", 0, [] and {} are false.
Truthy(x) ==
    CASE x.t = "null" -> FALSE
      [] x.t = "str"  -> x.v # <<>>
      [] x.t = "int"  -> x.v # 0
      [] x.t = "list" -> x.v # <<>>
      [] x.t = "obj"  -> DOMAIN x.v # {}

\* a and b, a or b: the operand that decided, not a boolean.
PyAnd(a, b) == IF Truthy(a) THEN b ELSE a
PyOr(a, b) == IF Truthy(a) THEN a ELSE b

\* dict.get(k): None when the key is missing.
Get(o, k) == IF k \in DOMAIN o.v THEN o.v[k] ELSE JNull
\* dict[k] and list[i] (Python's list[0] is Item(l, 1)).
Index(o, k) == o.v[k]
Item(l, i) == l.v[i]

Min(S) == CHOOSE x \in S : \A y \in S : x <= y

(***************************************************************************)
(* _warn_re = re.compile(r'#\[warn\(([^)]+)\)\]') and its search().        *)
(* [^)]+ is followed by \) in the pattern, so at a given start the group   *)
(* can only be the whole run of characters up to the first ")".            *)
(***************************************************************************)
WarnOpen == <<"#", "[", "w", "a", "r", "n", "(">>

\* The position of the first ")" at or after i, Len(s) + 1 when there is none.
NextClose(s, i) ==
    LET close == {j \in i..Len(s) : s[j] = ")"}
    IN  IF close = {} THEN Len(s) + 1 ELSE Min(close)

warn_re_at(s, i) ==
    LET g == i + Len(WarnOpen)
        j == NextClose(s, g)
    IN  /\ i + Len(WarnOpen) - 1 <= Len(s)
        /\ s[i] = WarnOpen[1]
        /\ SubSeq(s, i, i + Len(WarnOpen) - 1) = WarnOpen
        /\ j > g
        /\ j + 1 <= Len(s)
        /\ s[j + 1] = "]"

\* search(): the leftmost match; group is match.group(1).
warn_re_search(s) ==
    LET starts == {i \in 1..Len(s) : warn_re_at(s, i)}
    IN  IF starts = {}
        THEN [found |-> FALSE, group |-> <<>>]
        ELSE LET i == Min(starts)
                 g == i + Len(WarnOpen)
             IN  [found |-> TRUE, group |-> SubSeq(s, g, NextClose(s, g) - 1)]

\* str.replace('_', '-')
replace_underscore(s) == [i \in 1..Len(s) |-> IF s[i] = "_" THEN "-" ELSE s[i]]

\* 'warning-%s' % x
WarningPrefix == <<"w", "a", "r", "n", "i", "n", "g", "-">>
Generic == <<"g", "e", "n", "e", "r", "i", "c">>

\* Fault variant of children_code: the last matching child decides.
children_code_m(children) ==
    LET hits == {k \in 1..Len(children.v) :
                    warn_re_search(Index(Item(children, k), "message").v).found}
        last == CHOOSE k \in hits : \A h \in hits : h <= k
    IN  IF hits = {}
        THEN JNull
        ELSE JStr(WarningPrefix \o replace_underscore(
                 warn_re_search(Index(Item(children, last), "message").v).group))

\* The for loop over msg['children']: the code of the first child whose
\* message matches, None when no child does.
children_code(children) ==
    LET hits == {k \in 1..Len(children.v) :
                    warn_re_search(Index(Item(children, k), "message").v).found}
    IN  IF hits = {}
        THEN JNull
        ELSE JStr(WarningPrefix \o replace_underscore(
                 warn_re_search(Index(Item(children, Min(hits)), "message").v).group))

\* Fault variant of select_code: the children are scanned whenever the own
\* code is false, not only when it is None.
select_code_m(msg) ==
    LET code == Get(PyOr(Get(msg, "code"), JObj(<<>>)), "code")
    IN  IF ~Truthy(code) /\ Truthy(Get(msg, "children"))
        THEN children_code(Index(msg, "children"))
        ELSE code

\* code = (msg.get('code') or {}).get('code'), then the scan of the children.
select_code(msg) ==
    LET code == Get(PyOr(Get(msg, "code"), JObj(<<>>)), "code")
    IN  IF code.t = "null" /\ Truthy(Get(msg, "children"))
        THEN children_code(Index(msg, "children"))
        ELSE code

\* message, with the first span's label appended when it has one.
select_message(msg, spans) ==
    IF Truthy(Get(Item(spans, 1), "label"))
    THEN JStr(Index(msg, "message").v \o <<" ", "(">>
              \o Index(Item(spans, 1), "label").v \o <<")">>)
    ELSE Index(msg, "message")

\* Fault variant of span_used: spans[-1].
span_used_m(spans) == Item(spans, Len(spans.v))

\* Which span of the diagnostic locates the record: spans[0].
span_used(spans) == Item(spans, 1)

\* Fault variant of cargo_record: reason is not looked at.
cargo_record_m(d) ==
    LET msg == Get(d, "message")
        spans == PyAnd(msg, Get(msg, "spans"))
    IN  IF Truthy(msg) /\ Truthy(spans)
        THEN [emit |-> TRUE,
              rec |-> [filename |-> Index(span_used(spans), "file_name"),
                       code |-> PyOr(select_code(msg), JStr(Generic)),
                       level |-> Index(msg, "level"),
                       message |-> select_message(msg, spans),
                       line |-> Index(span_used(spans), "line_start"),
                       column |-> Index(span_used(spans), "column_start")]]
        ELSE [emit |-> FALSE, rec |-> <<>>]

\* The body of the cargo loop for one decoded line d: whether a record is
\* printed, and the record.
cargo_record(d) ==
    LET msg == Get(d, "message")
        reason == Get(d, "reason")
        spans == PyAnd(msg, Get(msg, "spans"))
    IN  IF Truthy(msg) /\ Truthy(reason) /\ Truthy(spans)
        THEN [emit |-> TRUE,
              rec |-> [filename |-> Index(span_used(spans), "file_name"),
                       code |-> PyOr(select_code(msg), JStr(Generic)),
                       level |-> Index(msg, "level"),
                       message |-> select_message(msg, spans),
                       line |-> Index(span_used(spans), "line_start"),
                       column |-> Index(span_used(spans), "column_start")]]
        ELSE [emit |-> FALSE, rec |-> <<>>]

\* A line of the child is the text of a JSON document (t = "json", v the
\* document) or text that is no JSON (t = "text").  json.loads returns the
\* document or raises ValueError.
json_loads(line) ==
    IF line.t = "json" THEN [ok |-> TRUE, value |-> line.v]
                       ELSE [ok |-> FALSE, value |-> JNull]

(***************************************************************************)
(* _report_re and its match(), which anchors at the start of the line:     *)
(*   filename [^:]+  ":"  line \d+  ":"  column \d+  ":" \s                *)
(*   code \S+  \s  message: the rest of the line up to its newline         *)
(* Every repeated class is followed in the pattern by a character outside  *)
(* the class, so each group can only be the whole run of its class, and    *)
(* backtracking finds no other match.                                      *)
(***************************************************************************)
IsDigit(ch) == ch \in {"0", "1", "2", "3", "4", "5", "6", "7", "8", "9"}
\* \s, but for the vertical tab, which no input holds.
IsSpace(ch) == ch \in {" ", "\t", "\n", "\r", "\f"}

\* Membership of ch in a character class of the pattern.
InClass(cls, ch) ==
    CASE cls = "[^:]" -> ch # ":"
      [] cls = "\\d"  -> IsDigit(ch)
      [] cls = "\\S"  -> ~IsSpace(ch)
      [] cls = "."    -> ch # "\n"

\* The end (exclusive) of the longest run of characters of class cls from i.
RunEnd(s, i, cls) ==
    LET stop == {j \in i..Len(s) : ~InClass(cls, s[j])}
    IN  IF stop = {} THEN Len(s) + 1 ELSE Min(stop)

\* Whether s has character ch at position i.
At(s, i, ch) == i <= Len(s) /\ s[i] = ch
SpaceAt(s, i) == i <= Len(s) /\ IsSpace(s[i])

\* Fault variant of report_re_match: nothing need follow the code.
report_re_match_m(s) ==
    LET f == RunEnd(s, 1, "[^:]")
        l == RunEnd(s, f + 1, "\\d")
        c == RunEnd(s, l + 1, "\\d")
        k == RunEnd(s, c + 2, "\\S")
        m == RunEnd(s, k + 1, ".")
    IN  IF /\ f > 1 /\ At(s, f, ":")
           /\ l > f + 1 /\ At(s, l, ":")
           /\ c > l + 1 /\ At(s, c, ":")
           /\ SpaceAt(s, c + 1)
           /\ k > c + 2
        THEN [matched |-> TRUE,
              filename |-> SubSeq(s, 1, f - 1),
              line |-> SubSeq(s, f + 1, l - 1),
              column |-> SubSeq(s, l + 1, c - 1),
              code |-> SubSeq(s, c + 2, k - 1),
              message |-> SubSeq(s, k + 1, m - 1)]
        ELSE [matched |-> FALSE, filename |-> <<>>, line |-> <<>>,
              column |-> <<>>, code |-> <<>>, message |-> <<>>]

report_re_match(s) ==
    LET f == RunEnd(s, 1, "[^:]")
        l == RunEnd(s, f + 1, "\\d")
        c == RunEnd(s, l + 1, "\\d")
        k == RunEnd(s, c + 2, "\\S")
        m == RunEnd(s, k + 1, ".")
    IN  IF /\ f > 1 /\ At(s, f, ":")
           /\ l > f + 1 /\ At(s, l, ":")
           /\ c > l + 1 /\ At(s, c, ":")
           /\ SpaceAt(s, c + 1)
           /\ k > c + 2
           /\ SpaceAt(s, k)
        THEN [matched |-> TRUE,
              filename |-> SubSeq(s, 1, f - 1),
              line |-> SubSeq(s, f + 1, l - 1),
              column |-> SubSeq(s, l + 1, c - 1),
              code |-> SubSeq(s, c + 2, k - 1),
              message |-> SubSeq(s, k + 1, m - 1)]
        ELSE [matched |-> FALSE, filename |-> <<>>, line |-> <<>>,
              column |-> <<>>, code |-> <<>>, message |-> <<>>]

\* int() of a string of decimal digits.
DigitValue(ch) ==
    CASE ch = "0" -> 0 [] ch = "1" -> 1 [] ch = "2" -> 2 [] ch = "3" -> 3
      [] ch = "4" -> 4 [] ch = "5" -> 5 [] ch = "6" -> 6 [] ch = "7" -> 7
      [] ch = "8" -> 8 [] ch = "9" -> 9

RECURSIVE int(_)
int(s) == IF s = <<>> THEN 0
          ELSE 10 * int(SubSeq(s, 1, Len(s) - 1)) + DigitValue(s[Len(s)])

\* Fault variant of flake8_record: line and column change places.
flake8_record_m(line) ==
    LET d == report_re_match(line)
    IN  IF d.matched
        THEN [emit |-> TRUE,
              rec |-> [filename |-> d.filename,
                       line |-> int(d.column),
                       column |-> int(d.line),
                       code |-> d.code,
                       message |-> d.message]]
        ELSE [emit |-> FALSE, rec |-> <<>>]

\* The body of the flake8 loop for one line: whether a record is printed,
\* and the record.
flake8_record(line) ==
    LET d == report_re_match(line)
    IN  IF d.matched
        THEN [emit |-> TRUE,
              rec |-> [filename |-> d.filename,
                       line |-> int(d.line),
                       column |-> int(d.column),
                       code |-> d.code,
                       message |-> d.message]]
        ELSE [emit |-> FALSE, rec |-> <<>>]

(***************************************************************************)
(* What the child can write.  cargo: lines of its JSON event stream, with  *)
(* the fields the script subscripts (message.message, message.level, a     *)
(* span's file_name, line_start and column_start, a child's message)       *)
(* always there and the fields it reads with get() there or not; and text  *)
(* that is no JSON.                                                        *)
(***************************************************************************)
FileA == <<"a", ".", "r", "s">>
FileB == <<"b", ".", "r", "s">>
SpanBase == [file_name |-> JStr(FileA), line_start |-> JInt(3), column_start |-> JInt(7)]
SpanPlain == JObj(SpanBase)
SpanNullLabel == JObj(SpanBase @@ [label |-> JNull])
SpanEmptyLabel == JObj(SpanBase @@ [label |-> JStr(<<>>)])
SpanLabel == JObj(SpanBase @@ [label |-> JStr(<<"l", "b">>)])
SpanOther == JObj([file_name |-> JStr(FileB), line_start |-> JInt(9),
                   column_start |-> JInt(1), label |-> JStr(<<"o">>)])

UnusedVariables ==
    <<"u", "n", "u", "s", "e", "d", "_", "v", "a", "r", "i", "a", "b", "l", "e", "s">>
DeadCode == <<"d", "e", "a", "d", "_", "c", "o", "d", "e">>
Marker(cat) == WarnOpen \o cat \o <<")", "]">>
Child(text) == JObj([message |-> JStr(text)])
ChildPlain == Child(<<"h", "e", "l", "p">>)
ChildUnused == Child(<<"n", "o", "t", "e", ":", " ">> \o Marker(UnusedVariables) \o <<" ", "o", "n">>)
ChildDead == Child(Marker(DeadCode))
\* Text that only looks like a marker: no "]" after the ")", or no category.
ChildBroken == Child(WarnOpen \o <<"x", ")", "y", "]">> \o WarnOpen \o <<")", "]">>)
\* A broken marker and then a good one, in one text.
ChildSecond == Child(WarnOpen \o <<"x", ")", " ">> \o Marker(<<"a", "_", "_", "b">>))

NoField == <<>>
SpansFields ==
    {NoField, [spans |-> JNull], [spans |-> JList(<<>>)], [spans |-> JList(<<SpanPlain>>)],
     [spans |-> JList(<<SpanNullLabel>>)], [spans |-> JList(<<SpanEmptyLabel>>)],
     [spans |-> JList(<<SpanLabel, SpanOther>>)], [spans |-> JList(<<SpanOther, SpanPlain>>)]}

E0308 == <<"E", "0", "3", "0", "8">>
CodeAbsent == NoField
CodeNull == [code |-> JNull]
CodeInnerNull == [code |-> JObj([code |-> JNull])]
CodeEmptyStr == [code |-> JObj([code |-> JStr(<<>>)])]
CodeOwn == [code |-> JObj([code |-> JStr(E0308)])]

ChildrenAbsent == NoField
ChildrenMarked == [children |-> JList(<<ChildPlain, ChildDead, ChildUnused>>)]
ChildrenFields ==
    {ChildrenAbsent, [children |-> JList(<<>>)], [children |-> JList(<<ChildUnused>>)],
     [children |-> JList(<<ChildBroken, ChildPlain>>)],
     [children |-> JList(<<ChildBroken, ChildSecond, ChildDead>>)], ChildrenMarked}

CodeChildrenFields ==
    {CodeAbsent @@ ch : ch \in ChildrenFields}
    \cup {co @@ ChildrenMarked : co \in {CodeNull, CodeInnerNull, CodeEmptyStr, CodeOwn}}
    \cup {CodeEmptyStr}

MessageBase(level) ==
    [message |-> JStr(<<"m", "s", "g">>), level |-> JStr(level)]
LevelWarning == <<"w", "a", "r", "n", "i", "n", "g">>
LevelError == <<"e", "r", "r", "o", "r">>
FullMessage == JObj(MessageBase(LevelError) @@ [spans |-> JList(<<SpanPlain>>)] @@ CodeOwn)
CompilerMessage == <<"c", "o", "m", "p", "i", "l", "e", "r", "-", "m", "e", "s", "s", "a", "g", "e">>
Event(fields) == [t |-> "json", v |-> JObj(fields)]

CargoLines ==
    {[t |-> "text", v |-> <<"\n">>]}
    \cup {Event(NoField),
          Event([reason |-> JStr(<<"b", "u", "i", "l", "d">>)]),
          Event([message |-> FullMessage]),
          Event([reason |-> JNull, message |-> FullMessage]),
          Event([reason |-> JStr(<<>>), message |-> FullMessage]),
          Event([reason |-> JStr(CompilerMessage), message |-> JNull]),
          Event([reason |-> JStr(CompilerMessage), message |-> JObj(NoField)])}
    \cup {Event([reason |-> JStr(CompilerMessage),
                 message |-> JObj(MessageBase(LevelError) @@ sp @@ CodeOwn)]) :
             sp \in SpansFields}
    \cup {Event([reason |-> JStr(CompilerMessage),
                 message |-> JObj(MessageBase(LevelWarning)
                                  @@ [spans |-> JList(<<SpanPlain>>)] @@ cc)]) :
             cc \in CodeChildrenFields}

(***************************************************************************)
(* flake8: text lines, with their newline when they have one.              *)
(***************************************************************************)
Report(fn, ln, col, sep, code, sep2, msg, nl) ==
    fn \o <<":">> \o ln \o <<":">> \o col \o <<":">> \o sep \o code \o sep2 \o msg \o nl
SP == <<" ">>
NL == <<"\n">>
One == <<"1">>
Two == <<"2">>
CodeE == <<"E">>
MsgM == <<"m">>
FileP == <<"a">>
\* src/a.py:12:5: E501 line too long
ExampleLine ==
    Report(<<"s", "r", "c", "/", "a", ".", "p", "y">>, <<"1", "2">>, <<"5">>, SP,
           <<"E", "5", "0", "1">>, SP,
           <<"l", "i", "n", "e", " ", "t", "o", "o", " ", "l", "o", "n", "g">>, NL)
ExampleFilename == <<"s", "r", "c", "/", "a", ".", "p", "y">>
ExampleCode == <<"E", "5", "0", "1">>
ExampleMessage == <<"l", "i", "n", "e", " ", "t", "o", "o", " ", "l", "o", "n", "g">>

Flake8Lines ==
    {ExampleLine,
     Report(FileP, One, Two, SP, CodeE, SP, MsgM, NL),
     Report(FileP, One, Two, SP, CodeE, SP, <<>>, NL),
     Report(FileP, One, Two, SP, CodeE, <<>>, <<>>, NL),
     Report(FileP, One, Two, SP, CodeE, <<>>, <<>>, <<>>),
     Report(FileP, One, Two, SP, CodeE, SP, MsgM, <<>>),
     Report(FileP, One, Two, <<>>, CodeE, SP, MsgM, NL),
     Report(FileP, <<"x">>, Two, SP, CodeE, SP, MsgM, NL),
     Report(FileP, One, <<>>, SP, CodeE, SP, MsgM, NL),
     Report(<<>>, One, Two, SP, CodeE, SP, MsgM, NL),
     Report(FileP, One, Two, <<" ", " ">>, CodeE, SP, MsgM, NL),
     Report(FileP, One, Two, SP, CodeE, <<" ", " ">>, MsgM, NL),
     Report(<<"a", " ", "b">>, <<"0", "7">>, <<"1", "0">>, <<"\t">>, CodeE, SP, MsgM, NL),
     Report(FileP, One, Two, SP, <<"E", ":", "F">>, SP, <<"m", ":", "n">>, NL),
     Report(<<"C", ":", "a">>, One, Two, SP, CodeE, SP, MsgM, NL),
     <<"a", ":", "1", ":", " ", "E", " ", "m", "\n">>,
     <<"2", " ", "E", "\n">>,
     NL}

\* Codes a child can exit with; a negative returncode is the number of the
\* signal that killed it (subprocess.Popen.returncode).
ReturnCodes == {0, 101, 0 - 9}

\* sys.exit(n) for an integer n: the process status is n's low byte.
sys_exit(n) == n % 256

\* Sequences over S of length at most n.
SeqsUpTo(S, n) == UNION {[1..k -> S] : k \in 0..n}

(***************************************************************************)
(* One invocation.                                                         *)
(*   tool       which script runs: "cargo" or "flake8"                     *)
(*   stdout     the lines the child writes to its stdout, in order         *)
(*   written    how many of them it has written to the pipe                *)
(*   c          the child: running, stdout closed, or exited with a        *)
(*              returncode (0 until it has exited)                         *)
(*   nread      how many lines readline() has returned                     *)
(*   out        the records the script has printed, in order               *)
(*   src        for each printed record, the number of the line whose      *)
(*              loop iteration printed it (history)                        *)
(*   pc         "loop", "wait" (in c.wait()), "exited", or "crashed" (an   *)
(*              uncaught exception ended the script)                       *)
(*   exit_code  the script's exit status once pc is exited or crashed      *)
(***************************************************************************)
VARIABLES tool, stdout, written, c, nread, out, src, pc, exit_code

vars == <<tool, stdout, written, c, nread, out, src, pc, exit_code>>

Init ==
    /\ tool \in {"cargo", "flake8"}
    /\ stdout \in SeqsUpTo(IF tool = "cargo" THEN CargoLines ELSE Flake8Lines, MaxLines)
    /\ written = 0
    /\ c = [state |-> "running", returncode |-> 0]
    /\ nread = 0
    /\ out = <<>>
    /\ src = <<>>
    /\ pc = "loop"
    /\ exit_code = 0

\* The child writes its next line.
ChildWrite ==
    /\ c.state = "running"
    /\ written < Len(stdout)
    /\ written' = written + 1
    /\ UNCHANGED <<tool, stdout, c, nread, out, src, pc, exit_code>>

\* The child has written everything and closes its stdout.
ChildClose ==
    /\ c.state = "running"
    /\ written = Len(stdout)
    /\ c' = [c EXCEPT !.state = "closed"]
    /\ UNCHANGED <<tool, stdout, written, nread, out, src, pc, exit_code>>

\* The child terminates.
ChildExit ==
    /\ c.state = "closed"
    /\ \E rc \in ReturnCodes : c' = [state |-> "exited", returncode |-> rc]
    /\ UNCHANGED <<tool, stdout, written, nread, out, src, pc, exit_code>>

\* Fault variant of Emit: the record goes in front of the earlier ones.
Emit_m(rec, n) ==
    /\ out' = <<rec>> \o out
    /\ src' = <<n>> \o src

\* print(json.dumps(rec)) in the iteration of line number n.
Emit(rec, n) ==
    /\ out' = Append(out, rec)
    /\ src' = Append(src, n)

\* An uncaught exception: traceback, exit status 1.
Raise ==
    /\ pc' = "crashed"
    /\ exit_code' = 1
    /\ UNCHANGED <<out, src>>

\* run-cargo-check.py, one iteration of the loop on a line the pipe holds.
CargoLoop ==
    /\ tool = "cargo"
    /\ pc = "loop"
    /\ nread < written
    /\ nread' = nread + 1
    /\ LET line == stdout[nread + 1]
           d == json_loads(line)
       IN  IF ~d.ok
           THEN Raise
           ELSE /\ IF cargo_record(d.value).emit
                   THEN Emit(cargo_record(d.value).rec, nread + 1)
                   ELSE UNCHANGED <<out, src>>
                /\ UNCHANGED <<pc, exit_code>>
    /\ UNCHANGED <<tool, stdout, written, c>>

\* readline() returns '' at end of file: break.
CargoEOF ==
    /\ tool = "cargo"
    /\ pc = "loop"
    /\ nread = written
    /\ c.state # "running"
    /\ pc' = "wait"
    /\ UNCHANGED <<tool, stdout, written, c, nread, out, src, exit_code>>

\* Fault variant of CargoExit: c.wait() without sys.exit().
CargoExit_m ==
    /\ tool = "cargo"
    /\ pc = "wait"
    /\ c.state = "exited"
    /\ pc' = "exited"
    /\ exit_code' = 0
    /\ UNCHANGED <<tool, stdout, written, c, nread, out, src>>

\* sys.exit(c.wait())
CargoExit ==
    /\ tool = "cargo"
    /\ pc = "wait"
    /\ c.state = "exited"
    /\ pc' = "exited"
    /\ exit_code' = sys_exit(c.returncode)
    /\ UNCHANGED <<tool, stdout, written, c, nread, out, src>>

\* run-flake8.py, one iteration of the loop on a line the pipe holds.
Flake8Loop ==
    /\ tool = "flake8"
    /\ pc = "loop"
    /\ nread < written
    /\ nread' = nread + 1
    /\ LET line == stdout[nread + 1]
       IN  IF flake8_record(line).emit
           THEN Emit(flake8_record(line).rec, nread + 1)
           ELSE UNCHANGED <<out, src>>
    /\ UNCHANGED <<tool, stdout, written, c, pc, exit_code>>

Flake8EOF ==
    /\ tool = "flake8"
    /\ pc = "loop"
    /\ nread = written
    /\ c.state # "running"
    /\ pc' = "wait"
    /\ UNCHANGED <<tool, stdout, written, c, nread, out, src, exit_code>>

\* c.wait() and the end of the script: exit status 0.
Flake8Exit ==
    /\ tool = "flake8"
    /\ pc = "wait"
    /\ c.state = "exited"
    /\ pc' = "exited"
    /\ exit_code' = 0
    /\ UNCHANGED <<tool, stdout, written, c, nread, out, src>>

Next ==
    \/ ChildWrite
    \/ ChildClose
    \/ ChildExit
    \/ CargoLoop
    \/ CargoEOF
    \/ CargoExit
    \/ Flake8Loop
    \/ Flake8EOF
    \/ Flake8Exit

Spec == Init /\ [][Next]_vars

\* The invocations of run-cargo-check.py alone, and of run-flake8.py alone.
InitCargo == Init /\ tool = "cargo"
NextCargo ==
    \/ ChildWrite
    \/ ChildClose
    \/ ChildExit
    \/ CargoLoop
    \/ CargoEOF
    \/ CargoExit
SpecCargo == InitCargo /\ [][NextCargo]_vars

InitFlake8 == Init /\ tool = "flake8"
NextFlake8 ==
    \/ ChildWrite
    \/ ChildClose
    \/ ChildExit
    \/ Flake8Loop
    \/ Flake8EOF
    \/ Flake8Exit
SpecFlake8 == InitFlake8 /\ [][NextFlake8]_vars

(***************************************************************************)
(* Properties.                                                             *)
(***************************************************************************)
\* The printed records that came from line number i.
RecordsOf(i) == {k \in 1..Len(src) : src[k] = i}
RecordOf(i) == out[CHOOSE k \in 1..Len(src) : src[k] = i]

\* The message object of the cargo line a record came from.
MsgOf(k) == stdout[src[k]].v.v.message.v

\* C1: in run-cargo-check.py, once readline() has reported end of file no
\* record is printed any more, the script leaves c.wait() only when the child
\* has terminated, it exits only from there, and its exit status is then the
\* code the child exited with, however many records were printed.
C1_CargoExitsWithChildCode ==
    [][tool = "cargo" =>
         /\ pc \in {"wait", "exited"} => out' = out
         /\ pc' = "exited" /\ pc # "exited" =>
               /\ pc = "wait"
               /\ c.state = "exited"
               /\ c.returncode >= 0 => exit_code' = c.returncode]_vars

C1_Witness ==
    /\ tool = "cargo"
    /\ pc = "exited"
    /\ c.returncode = 101
    /\ exit_code = 101
    /\ Len(out) = 1
    /\ nread = 2

\* C2: in run-flake8.py, the script's exit status is the code the child
\* exited with.
C2_Flake8ExitsWithChildCode ==
    (tool = "flake8" /\ pc = "exited" /\ c.returncode >= 0) => exit_code = c.returncode

\* C3: in run-cargo-check.py, a line that is no JSON is skipped: it prints no
\* record, raises nothing, and the loop goes on to the later lines.
C3_NonJsonLineSkipped ==
    tool = "cargo" =>
        \A i \in 1..nread :
            stdout[i].t = "text" => RecordsOf(i) = {} /\ pc # "crashed"

\* A decoded line is a diagnostic: message, reason and message.spans are
\* there and are not null, empty or zero.
HasTruthy(o, k) == k \in DOMAIN o /\ Truthy(o[k])
IsDiagnostic(d) ==
    /\ HasTruthy(d.v, "message")
    /\ HasTruthy(d.v, "reason")
    /\ HasTruthy(d.v.message.v, "spans")

\* C4: in run-cargo-check.py, a decoded line prints exactly one record when
\* it is a diagnostic and none when it is not; either way its iteration
\* raises nothing and the loop goes on.
C4_RecordIffDiagnostic ==
    tool = "cargo" =>
        \A i \in 1..nread :
            stdout[i].t = "json" =>
                /\ Cardinality(RecordsOf(i)) = IF IsDiagnostic(stdout[i].v) THEN 1 ELSE 0
                /\ i = nread => pc # "crashed"

C4_Witness ==
    /\ tool = "cargo"
    /\ nread = 2
    /\ pc = "loop"
    /\ stdout[1].t = "json" /\ ~IsDiagnostic(stdout[1].v)
    /\ stdout[2].t = "json" /\ IsDiagnostic(stdout[2].v)
    /\ src = <<2>>

\* C5: every record of run-cargo-check.py carries the file name, start line
\* and start column of the first span of its diagnostic.
C5_FirstSpanLocates ==
    tool = "cargo" =>
        \A k \in 1..Len(out) :
            LET first == MsgOf(k).spans.v[1].v
            IN  /\ out[k].filename = first.file_name
                /\ out[k].line = first.line_start
                /\ out[k].column = first.column_start

C5_Witness ==
    /\ tool = "cargo"
    /\ \E k \in 1..Len(out) :
          /\ Len(MsgOf(k).spans.v) = 2
          /\ MsgOf(k).spans.v[1] # MsgOf(k).spans.v[2]
          /\ out[k].filename = MsgOf(k).spans.v[1].v.file_name

\* The code the message itself carries: message.code.code, null when
\* message.code or message.code.code is missing or null.
OwnCode(m) ==
    IF "code" \in DOMAIN m /\ m.code.t = "obj" /\ "code" \in DOMAIN m.code.v
    THEN m.code.v.code
    ELSE JNull

\* The categories the child diagnostics of the inputs name, and the code
\* each is to give.
Categories == {UnusedVariables, DeadCode, <<"a", "_", "_", "b">>}
CodeFor(cat) ==
    CASE cat = UnusedVariables ->
             <<"w", "a", "r", "n", "i", "n", "g", "-", "u", "n", "u", "s", "e", "d",
               "-", "v", "a", "r", "i", "a", "b", "l", "e", "s">>
      [] cat = DeadCode ->
             <<"w", "a", "r", "n", "i", "n", "g", "-", "d", "e", "a", "d", "-",
               "c", "o", "d", "e">>
      [] OTHER -> <<"w", "a", "r", "n", "i", "n", "g", "-", "a", "-", "-", "b">>

Contains(text, part) ==
    \E i \in 1..(Len(text) - Len(part) + 1) :
        text[i] = part[1] /\ SubSeq(text, i, i + Len(part) - 1) = part
\* The child diagnostics of message m, none when it has no list of them.
ChildTexts(m) ==
    IF "children" \in DOMAIN m /\ m.children.t = "list"
    THEN [j \in 1..Len(m.children.v) |-> m.children.v[j].v.message.v]
    ELSE <<>>
Marked(m) ==
    LET texts == ChildTexts(m)
    IN  {j \in 1..Len(texts) : \E cat \in Categories : Contains(texts[j], Marker(cat))}

\* C6: the code of a record of run-cargo-check.py is the message's own code
\* when it has one; else warning-<category>, underscores as hyphens, of the
\* first child diagnostic that carries a #[warn(<category>)] marker; else
\* generic.
C6_CodePriority ==
    tool = "cargo" =>
        \A k \in 1..Len(out) :
            LET m == MsgOf(k)
                own == OwnCode(m)
            IN  IF Truthy(own) THEN out[k].code = own
                ELSE own = JNull =>
                    LET marked == Marked(m)
                    IN  IF marked = {} THEN out[k].code = JStr(Generic)
                        ELSE \E cat \in Categories :
                                 /\ Contains(ChildTexts(m)[Min(marked)], Marker(cat))
                                 /\ out[k].code = JStr(CodeFor(cat))

C6_Witness ==
    /\ tool = "cargo"
    /\ \E k \in 1..Len(out) :
          /\ OwnCode(MsgOf(k)) = JNull
          /\ Cardinality(Marked(MsgOf(k))) = 2
          /\ out[k].code = JStr(CodeFor(DeadCode))

\* What the loop of each script prints for each line of the inputs.
CargoBuilt ==
    [line \in CargoLines |->
        IF line.t = "json" THEN cargo_record(line.v) ELSE [emit |-> FALSE, rec |-> <<>>]]
Flake8Built == [line \in Flake8Lines |-> flake8_record(line)]
Built(line) == IF tool = "flake8" THEN Flake8Built[line] ELSE CargoBuilt[line]

\* C7: in both scripts the printed records are, in order, the records of the
\* lines read so far that give one: one record a line, each built from its
\* own line alone, none twice, in the order of the lines.
C7_OrderPreserved ==
    LET built == [i \in 1..nread |-> Built(stdout[i])]
    IN  /\ Len(src) = Len(out)
        /\ \A k \in 1..Len(out) :
              /\ src[k] \in 1..nread
              /\ built[src[k]].emit
              /\ out[k] = built[src[k]].rec
        /\ \A k \in 1..(Len(src) - 1) : src[k] < src[k + 1]
        /\ \A i \in 1..nread : built[i].emit => RecordsOf(i) # {}

C7_Witness ==
    /\ Len(out) = 2
    /\ src = <<1, 2>>
    /\ out[1] # out[2]

\* A line has the form filename:line:column: code message, with f, l and c
\* the positions of the three colons and k that of the blank after the code.
FormAt(s, f, l, q, k) ==
    /\ f > 1 /\ s[f] = ":" /\ \A j \in 1..(f - 1) : s[j] # ":"
    /\ l > f + 1 /\ s[l] = ":" /\ \A j \in (f + 1)..(l - 1) : IsDigit(s[j])
    /\ q > l + 1 /\ s[q] = ":" /\ \A j \in (l + 1)..(q - 1) : IsDigit(s[j])
    /\ q + 1 <= Len(s) /\ IsSpace(s[q + 1])
    /\ k > q + 2 /\ IsSpace(s[k]) /\ \A j \in (q + 2)..(k - 1) : ~IsSpace(s[j])

HasForm(s) ==
    \E f \in 1..Len(s) : s[f] = ":" /\
        \E l \in (f + 1)..Len(s) : s[l] = ":" /\
            \E q \in (l + 1)..Len(s) : s[q] = ":" /\
                \E k \in (q + 1)..Len(s) : FormAt(s, f, l, q, k)

\* C8: in run-flake8.py, a line that has not the form
\* filename:line:column: code message prints nothing and raises nothing, and
\* the loop ends only when the child's output has ended.
C8_UnmatchedLineSkipped ==
    tool = "flake8" =>
        /\ \A i \in 1..nread : ~HasForm(stdout[i]) => RecordsOf(i) = {}
        /\ pc # "crashed"
        /\ pc \in {"wait", "exited"} => nread = Len(stdout) /\ c.state # "running"

C8_Witness ==
    /\ tool = "flake8"
    /\ nread = 2
    /\ ~HasForm(stdout[1])
    /\ HasForm(stdout[2])
    /\ src = <<2>>
    /\ pc = "wait"

\* The numbers the numerals of the inputs denote.
NumeralValue(ds) ==
    CASE ds = <<"1">> -> 1 [] ds = <<"2">> -> 2 [] ds = <<"5">> -> 5
      [] ds = <<"1", "2">> -> 12 [] ds = <<"0", "7">> -> 7 [] ds = <<"1", "0">> -> 10

\* The rest of s after position k, up to its newline.
RestOfLine(s, k) ==
    LET e == CHOOSE e \in k..Len(s) :
                 /\ \A j \in (k + 1)..e : s[j] # "\n"
                 /\ e = Len(s) \/ s[e + 1] = "\n"
    IN  SubSeq(s, k + 1, e)

\* C9: in run-flake8.py, a line of the form filename:line:column: code message
\* prints exactly one record: filename and code as written, line and column
\* as numbers, message the rest of the line after the code without the
\* newline, and no other field; the line of the example gives the record of
\* the example.
C9_MatchedLineRecord ==
    tool = "flake8" =>
        \A i \in 1..nread :
            LET s == stdout[i]
            IN  /\ \A f \in 1..Len(s) : s[f] = ":" =>
                     \A l \in (f + 1)..Len(s) : s[l] = ":" =>
                       \A q \in (l + 1)..Len(s) : s[q] = ":" =>
                         \A k \in (q + 1)..Len(s) : FormAt(s, f, l, q, k) =>
                             /\ Cardinality(RecordsOf(i)) = 1
                             /\ RecordOf(i) =
                                  [filename |-> SubSeq(s, 1, f - 1),
                                   line |-> NumeralValue(SubSeq(s, f + 1, l - 1)),
                                   column |-> NumeralValue(SubSeq(s, l + 1, q - 1)),
                                   code |-> SubSeq(s, q + 2, k - 1),
                                   message |-> RestOfLine(s, k)]
                /\ s = ExampleLine =>
                     RecordsOf(i) # {} /\
                     RecordOf(i) = [filename |-> ExampleFilename, line |-> 12,
                                    column |-> 5, code |-> ExampleCode,
                                    message |-> ExampleMessage]

C9_Witness ==
    /\ tool = "flake8"
    /\ nread = 2
    /\ stdout[1] = ExampleLine
    /\ HasForm(stdout[2])
    /\ Len(out) = 2
    /\ out[1].line = 12
    /\ out[2].line = 7 /\ out[2].column = 10

\* C10: in run-cargo-check.py the child diagnostics are looked at only when
\* the message's own code is null or missing: an own code that is the empty
\* string gives generic whatever the children say, and no record has an
\* empty or null code.
C10_EmptyCodeIsGeneric ==
    tool = "cargo" =>
        \A k \in 1..Len(out) :
            LET code == out[k].code
            IN  /\ code.t = "str" /\ code.v # <<>>
                /\ OwnCode(MsgOf(k)) = JStr(<<>>) => code = JStr(Generic)
                /\ (Len(code.v) >= Len(WarningPrefix)
                    /\ SubSeq(code.v, 1, Len(WarningPrefix)) = WarningPrefix)
                      => OwnCode(MsgOf(k)) = JNull

C10_Witness ==
    /\ tool = "cargo"
    /\ \E k \in 1..Len(out) :
          /\ OwnCode(MsgOf(k)) = JStr(<<>>)
          /\ Marked(MsgOf(k)) # {}
          /\ out[k].code = JStr(Generic)
====
